---- MODULE Spec2Model ----
(***************************************************************************)
(* A model of utils/run_uvm_regression.py: the UVM regression orchestrator *)
(* (run_uvm with its license-failure retry loop and its log classifier,    *)
(* prepare_tests, run_full_regression and the tail of main).               *)
(*                                                                         *)
(* Text is modelled as a sequence of pieces; the text itself is the        *)
(* concatenation of the pieces.  A piece is one character (" ", "\n", ":", *)
(* ",", "0", "1", "x", "y") or one of the literals the code searches for   *)
(* ("UVM_ERROR", "UVM_FATAL", "AXI_DECERR", "1-800-VERILOG"), or a fixed   *)
(* message of the code.                                                    *)
(***************************************************************************)
EXTENDS Integers, Sequences, FiniteSets, TLC

VARIABLES
    pc,               \* position of the single thread of control
    args,             \* main: the parsed command line
    environ,          \* os.environ: the variables get_mpact_configs reads
    standard_targets, \* main: what get_targets returned
    tests_to_run,     \* main: what prepare_tests returned: (target, elf) pairs
    temp_dir,         \* main: the TemporaryDirectory exists
    exit_code,        \* the process's exit status (-1: still running)
    idx,              \* run_full_regression: 1-based position in tests_to_run
    results,          \* run_full_regression: the report rows
    status,           \* run_full_regression: local `status` ("UNBOUND": not assigned)
    reason,           \* run_full_regression: local `reason`
    log,              \* run_full_regression: local `log`
    spike_log_path,   \* run_full_regression: a golden trace is handed to run_uvm
    report_written,   \* run_full_regression: the CSV and the archive are written
    failed_targets,   \* run_spike_timeout_check: local `failed_targets`
    exists_elf,       \* run_uvm: os.path.exists(elf_path) at entry
    cmd_spike_log,    \* run_uvm: `cmd` holds the SPIKE_LOG= argument
    attempt,          \* run_uvm: the loop variable `attempt` (0: loop not entered)
    returncode,       \* run_uvm: result.returncode of the latest attempt
    output,           \* run_uvm: result.stdout + result.stderr of the latest attempt
    ret,              \* run_uvm: the returned (status, reason, log)
    calls,            \* history: the (returncode, output) of every attempt of this call
    missing,          \* history: positions whose source artifact did not exist
    unresolved,       \* history: targets prepare_tests found no artifact for
    raised,           \* history: exceptions raised while a test case was processed
    checkouts,        \* history: the calls of checkout_git_commit and their outcomes
    build_graph,      \* history: the answers of get_targets' build-graph query
    suite_files,      \* history: the files the conformance-suite walks met
    riscv_tests,      \* history: what get_riscv_test_artifacts returned
    spike_calls,      \* history: the calls of generate_spike_log and their results
    trace_found,      \* history: the trace file of the test case in hand was there after the call
    group,            \* generate_spike_log: the processes of the simulator's group
    term_sent,        \* generate_spike_log: os.killpg(..., SIGTERM) was called
    spike_ret         \* generate_spike_log: the returned bool ("none": not returned)

uvm_vars == <<exists_elf, cmd_spike_log, attempt, returncode, output, ret, calls>>

main_vars == <<args, environ, standard_targets, tests_to_run, temp_dir, exit_code>>

loop_vars ==
    <<idx, results, status, reason, log, spike_log_path, report_written,
      failed_targets>>

hist_vars ==
    <<missing, unresolved, raised, checkouts, build_graph, suite_files,
      riscv_tests, spike_calls, trace_found>>

\* The history of discovery.
disc_hist == <<checkouts, build_graph, suite_files, riscv_tests>>

spike_vars == <<group, term_sent, spike_ret>>

vars == <<pc, main_vars, loop_vars, uvm_vars, hist_vars, spike_vars>>

----------------------------------------------------------------------------
(* Bounds of the model. *)

\* Most lines in a device-simulator output drawn for the classifier.
MaxLines == 3

----------------------------------------------------------------------------
(* Text helpers: Python's str and re semantics on piece sequences. *)

\* re's \s on the pieces of the model: the space and the line feed.
IsSpace(c) == c \in {" ", "\n"}

\* The literals of the regular expression's UVM_(?:FATAL|ERROR).
IsUvmMarker(c) == c \in {"UVM_ERROR", "UVM_FATAL"}

\* `needle in text` for a literal that is one piece.
Contains(text, needle) == \E i \in 1..Len(text) : text[i] = needle

\* Position of the end of the line that holds position p: the first line feed
\* at or after p, or Len+1.  This is where `.*` stops and where `$` matches.
EolFrom(text, p) ==
    CHOOSE j \in p..(Len(text) + 1) :
        /\ (j = Len(text) + 1 \/ text[j] = "\n")
        /\ \A k \in p..(j - 1) : text[k] # "\n"

\* Where a greedy \s* started at p stops: the first non-space at or after p.
SkipSpace(text, p) ==
    CHOOSE j \in p..(Len(text) + 1) :
        /\ (j = Len(text) + 1 \/ ~IsSpace(text[j]))
        /\ \A k \in p..(j - 1) : IsSpace(text[k])

\* `^` under re.MULTILINE.
AtLineStart(text, s) == s = 1 \/ text[s - 1] = "\n"

\* `$` under re.MULTILINE: the end of the text, or just before a line feed.
AtLineEnd(text, e) == e = Len(text) + 1 \/ text[e] = "\n"

\* str.strip(): leading and trailing whitespace removed.
Strip(text) ==
    LET keep == {i \in 1..Len(text) : ~IsSpace(text[i])}
    IN  IF keep = {} THEN <<>>
        ELSE LET lo == CHOOSE i \in keep : \A j \in keep : i <= j
                 hi == CHOOSE i \in keep : \A j \in keep : i >= j
             IN  SubSeq(text, lo, hi)

\* text.split('\n')[-1]: what follows the last line feed.
LastLine(text) ==
    LET nl == {i \in 1..Len(text) : text[i] = "\n"}
    IN  IF nl = {} THEN text
        ELSE LET last == CHOOSE i \in nl : \A j \in nl : i >= j
             IN  SubSeq(text, last + 1, Len(text))

\* reason.replace(',', ';').replace('\n', ' ')
SanitizeReason(text) ==
    [i \in 1..Len(text) |->
        IF text[i] = "," THEN ";" ELSE IF text[i] = "\n" THEN " " ELSE text[i]]

----------------------------------------------------------------------------
(* run_uvm: the classifier of the final attempt's output. *)

\* re.search found nothing (a match's group always starts with a marker piece).
NoMatch == <<>>

\* The pattern without its negative lookahead: summary lines match too.
LookaheadZeroCount_Never(text, p) == FALSE

\* The negative lookahead's pattern  .*:\s+0\s*$  tried at position p: a colon
\* on the rest of this line, then at least one \s (which may be a line feed),
\* then "0", then \s* up to an end of line.
LookaheadZeroCount(text, p) ==
    \E c \in p..(EolFrom(text, p) - 1) :
        /\ text[c] = ":"
        /\ LET z == SkipSpace(text, c + 1)
           IN  /\ z > c + 1
               /\ z <= Len(text)
               /\ text[z] = "0"
               /\ \E e \in (z + 1)..(Len(text) + 1) :
                      /\ \A k \in (z + 1)..(e - 1) : IsSpace(text[k])
                      /\ AtLineEnd(text, e)

\* The whole pattern  ^\s*(UVM_(?:FATAL|ERROR)(?!.*:\s+0\s*$).*)$  tried at
\* start position s.
UvmErrMatchesAt(text, s) ==
    /\ AtLineStart(text, s)
    /\ LET q == SkipSpace(text, s)
       IN  /\ q <= Len(text)
           /\ IsUvmMarker(text[q])
           /\ ~LookaheadZeroCount(text, q + 1)

\* re.search(...): the leftmost start position that matches; group(1) runs
\* from the marker to the end of its line.
UvmErrSearch(text) ==
    LET S == {s \in 1..(Len(text) + 1) : UvmErrMatchesAt(text, s)}
    IN  IF S = {} THEN NoMatch
        ELSE LET s == CHOOSE i \in S : \A j \in S : i <= j
                 q == SkipSpace(text, s)
             IN  SubSeq(text, q, EolFrom(text, q) - 1)

\* The reason of a non-zero exit, before it is sanitized.
FailReason(uvm_err, text) ==
    IF uvm_err # NoMatch THEN Strip(uvm_err)
    ELSE IF Contains(text, "AXI_DECERR") THEN <<"AXI_DECERR detected">>
    ELSE <<"Make failed: ">> \o LastLine(Strip(text))

\* "Process result (from last attempt)": the (status, reason, log) returned.
Classify(rc, text) ==
    LET uvm_err == UvmErrSearch(text)
    IN  IF rc # 0
        THEN [status |-> "FAIL",
              reason |-> SanitizeReason(FailReason(uvm_err, text)),
              log |-> text]
        ELSE IF uvm_err # NoMatch
        THEN [status |-> "FAIL",
              reason |-> SanitizeReason(Strip(uvm_err)),
              log |-> text]
        ELSE [status |-> "PASS", reason |-> <<"None">>, log |-> text]

----------------------------------------------------------------------------
(* run_uvm: entry check and retry loop. *)

max_retries == 3

\* Nothing returned yet.
NoRet == [status |-> "NONE", reason |-> <<>>, log |-> <<>>]

\* str(e) of an exception raised by a library call.
ExcTexts == {<<"Permission denied">>, <<"No such file", ",", " ", "x">>}

\* Exit codes of the device simulator's make.
ExitCodes == 0..2

\* The entry check dropped: a missing artifact goes on to the simulator.
ArtifactMissing_Never(ex) == FALSE

\* `if not os.path.exists(elf_path)`
ArtifactMissing(ex) == ~ex

\* The loop gives up one attempt early.
ShouldRetry_StopsEarly(rc, text, att) ==
    /\ rc # 0
    /\ Contains(text, "1-800-VERILOG")
    /\ att < max_retries - 1

\* The retry test looks at the marker only, not at the exit code.
ShouldRetry_IgnoresExitCode(rc, text, att) ==
    /\ Contains(text, "1-800-VERILOG")
    /\ att < max_retries

\* The attempt is retried: a non-zero exit with the license marker in the
\* output, and attempts left (`continue` with the for loop not exhausted).
ShouldRetry(rc, text, att) ==
    /\ rc # 0
    /\ Contains(text, "1-800-VERILOG")
    /\ att < max_retries

UvmEntry(Exists) ==
    /\ pc = "uvm_entry"
    /\ \E ex \in Exists :
        /\ exists_elf' = ex
        /\ cmd_spike_log' = (~ArtifactMissing(ex) /\ spike_log_path)
        /\ calls' = <<>>
        /\ returncode' = 0
        /\ output' = <<>>
        /\ IF ArtifactMissing(ex)
           THEN /\ ret' = [status |-> "BUILD_ARTIFACT_MISSING",
                           reason |-> <<"ELF file not found">>,
                           log |-> <<>>]
                /\ attempt' = 0
                /\ pc' = "uvm_ret"
           ELSE /\ ret' = NoRet
                /\ attempt' = 1
                /\ pc' = "uvm_attempt"
    /\ UNCHANGED <<main_vars, loop_vars, hist_vars, spike_vars>>

\* One pass of the for loop: subprocess.run returns (rc, out), or raises.
UvmAttempt(Codes, Outs) ==
    /\ pc = "uvm_attempt"
    /\ \/ \E rc \in Codes, out \in Outs :
            /\ returncode' = rc
            /\ output' = out
            /\ calls' = Append(calls, [rc |-> rc, out |-> out])
            /\ ret' = ret
            /\ IF ShouldRetry(rc, out, attempt)
               THEN attempt' = attempt + 1 /\ pc' = pc
               ELSE attempt' = attempt /\ pc' = "uvm_classify"
       \/ \E e \in ExcTexts :
            /\ ret' = [status |-> "EXEC_FAIL", reason |-> e, log |-> <<>>]
            /\ pc' = "uvm_ret"
            /\ UNCHANGED <<returncode, output, calls, attempt>>
    /\ UNCHANGED <<exists_elf, cmd_spike_log, main_vars, loop_vars, hist_vars,
                   spike_vars>>

UvmClassify ==
    /\ pc = "uvm_classify"
    /\ ret' = Classify(returncode, output)
    /\ pc' = "uvm_ret"
    /\ UNCHANGED <<exists_elf, cmd_spike_log, attempt, returncode, output,
                   calls>>
    /\ UNCHANGED <<main_vars, loop_vars, hist_vars, spike_vars>>

----------------------------------------------------------------------------
(* Targets and the policy tables.  A target identifier is a text: "//", the *)
(* package's segments separated by "/", ":" and the name.                   *)

T_ALIGN == <<"//", "tests", "/", "cocotb", ":", "align_test">>
T_REGS == <<"//", "tests", "/", "cocotb", ":", "registers">>
T_VSTORE == <<"//", "tests", "/", "cocotb", ":", "vector_store">>

\* "//tests:cocotb_align_test"
T_COCOTB_ALIGN == <<"//", "tests", ":", "cocotb", "_", "align_test">>

\* "//third_party/riscv-tests:"
RISCV_PREFIX == <<"//", "third_party", "/", "riscv-tests", ":">>

T_RVADD == RISCV_PREFIX \o <<"rv32", "ui-p-add">>
T_RVFENCE == RISCV_PREFIX \o <<"rv32", "ui-p-fence_i">>

DENYLIST ==
    { <<"//", "tests", "/", "cocotb", "/", "tutorial", "/", "counters", ":",
        "inst_cycle_counter_example">>,
      <<"//", "tests", "/", "cocotb", "/", "coralnpu_isa", ":", "perf_counters">>,
      <<"//", "tests", "/", "cocotb", "/", "rvv", ":", "vill_test">>,
      T_VSTORE,
      <<"//", "tests", "/", "cocotb", ":", "vector_store_fault">>,
      T_RVFENCE,
      RISCV_PREFIX \o <<"rv32", "ui-v-fence_i">>,
      <<"//", "tests", "/", "cocotb", "/", "rvv", ":", "vmsif_test">>,
      <<"//", "tests", "/", "cocotb", "/", "rvv", ":", "vmsbf_test">>,
      <<"//", "tests", "/", "cocotb", "/", "rvv", "/", "load_store", ":",
        "load_unit_masked">>,
      <<"//", "tests", "/", "cocotb", "/", "rvv", "/", "load_store", ":",
        "store_unit_masked">> }

SPIKE_DENYLIST ==
    { <<"//", "hw_sim", ":", "mailbox_example">>,
      <<"//", "tests", "/", "cocotb", "/", "exceptions", ":", "store_fault_0">>,
      <<"//", "tests", "/", "cocotb", "/", "rvv", ":", "rvv_add">>,
      <<"//", "tests", "/", "cocotb", "/", "rvv", ":", "rvv_load">>,
      <<"//", "tests", "/", "cocotb", "/", "rvv", ":", "vstart_store">>,
      T_REGS,
      <<"//", "tests", "/", "cocotb", ":", "stress_test">>,
      <<"//", "tests", "/", "cocotb", ":", "wfi_slot_0">>,
      <<"//", "tests", "/", "cocotb", ":", "wfi_slot_1">>,
      <<"//", "tests", "/", "cocotb", ":", "wfi_slot_2">>,
      <<"//", "tests", "/", "cocotb", ":", "wfi_slot_3">> }

\* --target not given (an empty string is as false as None).
NoTarget == <<>>

\* A rule of the build graph without a linker_script label.
NoAttr == <<>>

\* get_elf_source_path returned None.
NoElf == <<>>

\* str.startswith
StartsWith(text, prefix) ==
    Len(text) >= Len(prefix) /\ SubSeq(text, 1, Len(prefix)) = prefix

\* The targets the model meets, in the order Python's sorted() gives them.
TargetOrder ==
    <<T_ALIGN, T_REGS, T_VSTORE, T_COCOTB_ALIGN, T_RVADD, T_RVFENCE>>

\* sorted(S) for a set S of texts listed in `order`.
SortedBy(order, S) ==
    LET In(x) == x \in S IN SelectSeq(order, In)

\* seq[:n] for n >= 0.
Take(seq, n) == SubSeq(seq, 1, IF n < Len(seq) THEN n ELSE Len(seq))

\* target.replace('//', '').replace(':', '_').replace('/', '_')
SafeName(target) ==
    LET Keep(c) == c # "//"
        kept == SelectSeq(target, Keep)
    IN  [i \in 1..Len(kept) |->
            IF kept[i] = ":" \/ kept[i] = "/" THEN "_" ELSE kept[i]]

LogFileName(target) == SafeName(target) \o <<".log">>

\* safe_name: the name of the artifact's copy in the working directory.
ElfFileName(target) == SafeName(target) \o <<".elf">>

\* spike_log_name: the name of the golden-trace file.
SpikeLogName(target) == ElfFileName(target) \o <<".spike.log">>

----------------------------------------------------------------------------
(* get_targets *)

\* f"{pkg}:{name}.ld" for "//package:target", or for "//package".
ExpectedLinkerScript(target) ==
    LET colons == {i \in 1..Len(target) : target[i] = ":"}
    IN  IF colons # {}
        THEN LET c == CHOOSE i \in colons : \A j \in colons : i <= j
                 after == SubSeq(target, c + 1, Len(target))
                 more == {i \in 1..Len(after) : after[i] = ":"}
                 name == IF more = {} THEN after
                         ELSE SubSeq(after, 1,
                                  (CHOOSE i \in more : \A j \in more : i <= j) - 1)
             IN  SubSeq(target, 1, c - 1) \o <<":">> \o name \o <<".ld">>
        ELSE LET slashes == {i \in 1..Len(target) : target[i] \in {"/", "//"}}
                 last == IF slashes = {} THEN 0
                         ELSE CHOOSE i \in slashes : \A j \in slashes : i >= j
             IN  target \o <<":">> \o SubSeq(target, last + 1, Len(target))
                    \o <<".ld">>

\* The loop without its denylist test.
DiscoveredTargets_KeepsDenylisted(graph) ==
    {r.name : r \in {r \in graph :
        /\ r.linker_script # NoAttr
        /\ r.linker_script = ExpectedLinkerScript(r.name)}}

\* The loop taking any rule that declares a linker script.
DiscoveredTargets_AnyLinkerScript(graph) ==
    {r.name : r \in {r \in graph :
        /\ r.name \notin DENYLIST
        /\ r.linker_script # NoAttr}}

\* The loop over the rules of the query result: the names kept.
DiscoveredTargets(graph) ==
    {r.name : r \in {r \in graph :
        /\ r.name \notin DENYLIST
        /\ r.linker_script # NoAttr
        /\ r.linker_script = ExpectedLinkerScript(r.name)}}

\* --limit was not given (None).
NoLimit == <<>>

\* `if limit:` a limit <<n>> was given and n is not 0.
LimitApplies(limit) == limit # NoLimit /\ limit[1] # 0

get_targets(limit, target, graph) ==
    IF target # NoTarget THEN <<target>>
    ELSE LET targets == SortedBy(TargetOrder, DiscoveredTargets(graph))
         IN  IF LimitApplies(limit) THEN Take(targets, limit[1]) ELSE targets

----------------------------------------------------------------------------
(* get_riscv_test_artifacts *)

\* A file the directory walk meets is kept: not a .dump, named rv32*, and its
\* pseudo-target not denylisted.
SuiteFileKept(f) ==
    /\ f.name # <<>>
    /\ f.name[Len(f.name)] # ".dump"
    /\ f.name[1] = "rv32"
    /\ (RISCV_PREFIX \o f.name) \notin DENYLIST

SuiteArtifact(f) ==
    [target |-> RISCV_PREFIX \o f.name, elf |-> f.root \o <<"/">> \o f.name]

\* The (pseudo_target, path) pairs the model meets, as sorted() orders them.
ArtifactOrder ==
    << [target |-> T_RVADD, elf |-> <<"d1", "/", "rv32", "ui-p-add">>],
       [target |-> T_RVADD, elf |-> <<"d2", "/", "rv32", "ui-p-add">>] >>

\* query_ok: the cquery succeeded; files: what os.walk met in its directories.
get_riscv_test_artifacts(query_ok, files) ==
    IF ~query_ok THEN <<>>
    ELSE SortedBy(ArtifactOrder,
                  {SuiteArtifact(f) : f \in {g \in files : SuiteFileKept(g)}})

----------------------------------------------------------------------------
(* prepare_tests *)

RECURSIVE ResolveStandard(_, _, _)
\* The loop over standard_targets: elf_of[t] is what get_elf_source_path(t)
\* returned, NoElf for None.
ResolveStandard(targets, only, elf_of) ==
    IF targets = <<>> THEN <<>>
    ELSE LET t == Head(targets)
             rest == ResolveStandard(Tail(targets), only, elf_of)
         IN  IF only # NoTarget /\ only # t THEN rest
             ELSE IF elf_of[t] # NoElf
             THEN <<[target |-> t, elf |-> elf_of[t]]>> \o rest
             ELSE rest

prepare_tests(a, targets, artifacts, elf_of) ==
    LET Wanted(x) == ~(a.target # NoTarget /\ a.target # x.target)
        suite == IF a.skip_riscv_tests THEN <<>>
                 ELSE SelectSeq(artifacts, Wanted)
        all == suite \o ResolveStandard(targets, a.target, elf_of)
    IN  IF LimitApplies(a.limit) THEN Take(all, a.limit[1]) ELSE all

\* The standard targets the resolution loop asked for and got None.
UnresolvedTargets(a, targets, elf_of) ==
    {targets[i] : i \in {j \in 1..Len(targets) :
        /\ ~(a.target # NoTarget /\ a.target # targets[j])
        /\ elf_of[targets[j]] = NoElf}}

----------------------------------------------------------------------------
(* Inputs of a run: command lines, build graphs, conformance-suite files. *)

\* Most test cases handed to the run phase.
MaxTests == 2

\* --mpact-riscv-root / CORALNPU_MPACT_RISCV not given; a commit flag not given.
NoRoot == <<>>
NoCommit == <<>>

\* The default of CORALNPU_MPACT.
MpactRoot == <<"/tmp/copybara-mpact">>

\* The (mpact_root, mpact_riscv_root) pair main works with.
get_mpact_configs(a, env) ==
    [mpact_root |-> MpactRoot,
     mpact_riscv_root |->
        IF a.mpact_riscv_root # NoRoot THEN a.mpact_riscv_root
        ELSE env.CORALNPU_MPACT_RISCV]

\* Command lines that select, list and limit the targets.
BaseArgs ==
    [limit : {NoLimit, <<0>>, <<1>>},
     target : {NoTarget, T_REGS, T_VSTORE},
     list_targets : BOOLEAN,
     check_spike_timeouts : {FALSE},
     skip_riscv_tests : BOOLEAN,
     mpact_riscv_root : {NoRoot},
     mpact_commit : {NoCommit},
     mpact_riscv_commit : {NoCommit}]

\* Command lines that pin the MPACT repositories to a commit (and run one
\* test).
CommitArgs ==
    [limit : {<<1>>},
     target : {NoTarget},
     list_targets : {FALSE},
     check_spike_timeouts : {FALSE},
     skip_riscv_tests : {TRUE},
     mpact_riscv_root : {NoRoot, <<"/", "riscv">>},
     mpact_commit : {NoCommit, <<"c1">>},
     mpact_riscv_commit : {NoCommit, <<"c2">>}]

\* Command lines that ask for the trace-generation check only.
CheckArgs ==
    [limit : {NoLimit},
     target : {NoTarget},
     list_targets : {FALSE},
     check_spike_timeouts : {TRUE},
     skip_riscv_tests : BOOLEAN,
     mpact_riscv_root : {NoRoot},
     mpact_commit : {NoCommit},
     mpact_riscv_commit : {NoCommit}]

ArgsSet == BaseArgs \cup CommitArgs \cup CheckArgs

\* os.environ: CORALNPU_MPACT_RISCV is absent (NoRoot) or holds a path.
NoEnviron == [CORALNPU_MPACT_RISCV |-> NoRoot]
Environs == {NoEnviron, [CORALNPU_MPACT_RISCV |-> <<"/", "env", "/", "riscv">>]}

\* The (command line, environment) pairs a run starts from.
RunInputs ==
    ((BaseArgs \cup CheckArgs) \X {NoEnviron}) \cup (CommitArgs \X Environs)

DefaultLs(t) == ExpectedLinkerScript(t)
CustomLs == <<"//", "tests", "/", "cocotb", ":", "custom", ".ld">>

BuildGraphs ==
    { {},
      {[name |-> T_ALIGN, linker_script |-> DefaultLs(T_ALIGN)]},
      {[name |-> T_ALIGN, linker_script |-> DefaultLs(T_ALIGN)],
       [name |-> T_REGS, linker_script |-> DefaultLs(T_REGS)],
       [name |-> T_VSTORE, linker_script |-> DefaultLs(T_VSTORE)]},
      {[name |-> T_ALIGN, linker_script |-> CustomLs],
       [name |-> T_REGS, linker_script |-> NoAttr]},
      {[name |-> T_ALIGN, linker_script |-> DefaultLs(T_ALIGN)],
       [name |-> T_COCOTB_ALIGN, linker_script |-> DefaultLs(T_COCOTB_ALIGN)]} }

SuiteWalks ==
    { {},
      {[root |-> <<"d1">>, name |-> <<"rv32", "ui-p-add">>],
       [root |-> <<"d1">>, name |-> <<"rv32", "ui-p-add", ".dump">>],
       [root |-> <<"d1">>, name |-> <<"rv32", "ui-p-fence_i">>],
       [root |-> <<"d1">>, name |-> <<"Makefile">>]},
      {[root |-> <<"d1">>, name |-> <<"rv32", "ui-p-add">>],
       [root |-> <<"d2">>, name |-> <<"rv32", "ui-p-add">>]} }

\* The path the build system reports for a standard target's .elf.
ElfPath(t) == <<"bazel-out", "/">> \o SafeName(t) \o <<".elf">>

\* What get_elf_source_path answers for each target: its path, or None.
Resolutions(targets) ==
    LET S == {targets[i] : i \in 1..Len(targets)}
    IN  {[t \in S |-> IF t \in R THEN ElfPath(t) ELSE NoElf] : R \in SUBSET S}

\* Device-simulator runs met in a regression.
RegressionCodes == {0, 1}
RegressionOutputs ==
    { <<"x">>,
      <<"UVM_ERROR", " ", "x", ",", "y">>,
      <<"1-800-VERILOG">> }

----------------------------------------------------------------------------
(* main and run_full_regression.  The process ends at pc = "exit": by a     *)
(* return of main (0), by sys.exit(1), or by an exception nobody catches    *)
(* (the interpreter exits 1).  Leaving the `with` block by any of these     *)
(* removes the temporary directory.                                         *)

\* checkout_git_commit(root, commit), main going on at `next` when it returns:
\* sys.exit(1) unless root is a git checkout and fetch and checkout succeed.
checkout_git_commit(which, root, commit, next) ==
    \E is_git \in BOOLEAN, git_ok \in BOOLEAN :
        /\ checkouts' = checkouts \cup
              {[which |-> which, root |-> root, commit |-> commit,
                ok |-> (is_git /\ git_ok)]}
        /\ IF is_git /\ git_ok
           THEN pc' = next /\ exit_code' = exit_code
           ELSE pc' = "exit" /\ exit_code' = 1

\* main: `if args.mpact_commit:`
CheckoutMpact ==
    /\ pc = "checkout_mpact"
    /\ IF args.mpact_commit # NoCommit
       THEN checkout_git_commit("mpact",
                                get_mpact_configs(args, environ).mpact_root,
                                args.mpact_commit, "checkout_mpact_riscv")
       ELSE /\ pc' = "checkout_mpact_riscv"
            /\ UNCHANGED <<checkouts, exit_code>>
    /\ UNCHANGED <<args, environ, standard_targets, tests_to_run, temp_dir,
                   loop_vars, uvm_vars, missing, unresolved, raised,
                   build_graph, suite_files, riscv_tests, spike_calls,
                   trace_found,
                   spike_vars>>

\* main: `if args.mpact_riscv_commit and mpact_riscv_root:`
CheckoutMpactRiscv ==
    /\ pc = "checkout_mpact_riscv"
    /\ LET mpact_riscv_root == get_mpact_configs(args, environ).mpact_riscv_root
       IN  IF args.mpact_riscv_commit # NoCommit /\ mpact_riscv_root # NoRoot
           THEN checkout_git_commit("mpact_riscv", mpact_riscv_root,
                                    args.mpact_riscv_commit, "get_targets")
           ELSE /\ pc' = "get_targets"
                /\ UNCHANGED <<checkouts, exit_code>>
    /\ UNCHANGED <<args, environ, standard_targets, tests_to_run, temp_dir,
                   loop_vars, uvm_vars, missing, unresolved, raised,
                   build_graph, suite_files, riscv_tests, spike_calls,
                   trace_found,
                   spike_vars>>

\* main up to get_targets: with --target no query is made; else the
\* build-graph query answers, or fails (check=True raises, nobody catches);
\* --list-targets returns after the listing.
GetTargets ==
    /\ pc = "get_targets"
    /\ \/ /\ \/ /\ args.target # NoTarget
                /\ standard_targets' = get_targets(args.limit, args.target, {})
                /\ UNCHANGED build_graph
             \/ /\ args.target = NoTarget
                /\ \E graph \in BuildGraphs :
                     /\ standard_targets' =
                            get_targets(args.limit, args.target, graph)
                     /\ build_graph' = Append(build_graph, graph)
          /\ IF args.list_targets
             THEN pc' = "exit" /\ exit_code' = 0
             ELSE pc' = "prepare_tests" /\ exit_code' = exit_code
       \/ /\ args.target = NoTarget
          /\ pc' = "exit"
          /\ exit_code' = 1
          /\ UNCHANGED <<standard_targets, build_graph>>
    /\ UNCHANGED <<args, environ, tests_to_run, temp_dir, loop_vars, uvm_vars,
                   missing, unresolved, raised, checkouts, suite_files,
                   riscv_tests, spike_calls, trace_found, spike_vars>>

\* prepare_tests: a failed build only warns; the artifacts are what the suite
\* walk (made unless --skip-riscv-tests) and the per-target queries answer.
PrepareTests ==
    /\ pc = "prepare_tests"
    /\ \E elf_of \in Resolutions(standard_targets) :
        \/ /\ args.skip_riscv_tests
           /\ LET tests == prepare_tests(args, standard_targets, <<>>, elf_of)
              IN  /\ Len(tests) <= MaxTests
                  /\ tests_to_run' = tests
           /\ unresolved' = UnresolvedTargets(args, standard_targets, elf_of)
           /\ UNCHANGED <<suite_files, riscv_tests>>
        \/ /\ ~args.skip_riscv_tests
           /\ \E query_ok \in BOOLEAN, files \in SuiteWalks :
                LET found == get_riscv_test_artifacts(query_ok, files)
                    tests == prepare_tests(args, standard_targets, found, elf_of)
                IN  /\ Len(tests) <= MaxTests
                    /\ tests_to_run' = tests
                    /\ riscv_tests' = found
                    /\ suite_files' = IF query_ok THEN Append(suite_files, files)
                                      ELSE suite_files
           /\ unresolved' = UnresolvedTargets(args, standard_targets, elf_of)
    /\ pc' = "build_spike"
    /\ UNCHANGED <<args, environ, standard_targets, temp_dir, exit_code,
                   loop_vars, uvm_vars, missing, raised, checkouts,
                   build_graph, spike_calls, trace_found, spike_vars>>

\* The directory is removed only when the block is left by its end.
TempDirAfter_ReturnOnly(how) == how # "return"

\* `with tempfile.TemporaryDirectory(...)`: whether the directory exists
\* after the block is left, by "return", "sys.exit" or "exception".
TempDirAfter(how) == FALSE

\* build_spike and the check of its binary; then the `with` block is entered,
\* and --check-spike-timeouts branches off to run_spike_timeout_check.
BuildSpike ==
    /\ pc = "build_spike"
    /\ \E spike_found \in BOOLEAN :
        IF spike_found
        THEN /\ temp_dir' = TRUE
             /\ exit_code' = exit_code
             /\ IF args.check_spike_timeouts
                THEN pc' = "check_next" /\ idx' = 1 /\ failed_targets' = <<>>
                ELSE pc' = "build_simulator" /\ UNCHANGED <<idx, failed_targets>>
        ELSE /\ temp_dir' = temp_dir
             /\ pc' = "exit"
             /\ exit_code' = 1
             /\ UNCHANGED <<idx, failed_targets>>
    /\ UNCHANGED <<args, environ, standard_targets, tests_to_run, results,
                   status, reason, log, spike_log_path, report_written,
                   uvm_vars, hist_vars, spike_vars>>

\* run_spike_timeout_check, top of the loop body: a test case without an
\* existing artifact is skipped.
CheckBegin ==
    /\ pc = "check_next"
    /\ idx <= Len(tests_to_run)
    /\ \E src_exists \in BOOLEAN :
        IF tests_to_run[idx].elf # NoElf /\ src_exists
        THEN /\ pc' = "check_setup"
             /\ UNCHANGED <<idx, missing>>
        ELSE /\ missing' = missing \cup {idx}
             /\ idx' = idx + 1
             /\ pc' = pc
    /\ UNCHANGED <<main_vars, results, status, reason, log, spike_log_path,
                   report_written, failed_targets, uvm_vars, unresolved,
                   raised, disc_hist, spike_calls, trace_found, spike_vars>>

\* run_spike_timeout_check: copy and chmod the artifact, read its entry
\* point; an exception puts the target on the list.
CheckSetup ==
    /\ pc = "check_setup"
    /\ \/ /\ pc' = "check_spike"
          /\ UNCHANGED <<idx, failed_targets, raised>>
       \/ \E e \in ExcTexts :
            /\ failed_targets' = Append(failed_targets, tests_to_run[idx].target)
            /\ raised' = raised \cup {[idx |-> idx, stage |-> "setup", text |-> e]}
            /\ idx' = idx + 1
            /\ pc' = "check_next"
    /\ UNCHANGED <<main_vars, results, status, reason, log, spike_log_path,
                   report_written, uvm_vars, missing, unresolved, disc_hist,
                   spike_calls, trace_found, spike_vars>>

\* No result of generate_spike_log puts a target on the list.
CheckFailed_Never(ok) == FALSE

\* `if not generate_spike_log(...)`
CheckFailed(ok) == ~ok

\* run_spike_timeout_check: generate_spike_log is called with the short
\* timeout.
CheckSpike ==
    /\ pc = "check_spike"
    /\ term_sent' = FALSE
    /\ spike_ret' = "none"
    /\ pc' = "spike_open"
    /\ UNCHANGED <<group, main_vars, loop_vars, uvm_vars, hist_vars>>

\* run_spike_timeout_check after the loop: the suggested denylist is logged
\* from failed_targets, and main returns.
CheckFinish ==
    /\ pc = "check_next"
    /\ idx > Len(tests_to_run)
    /\ temp_dir' = TempDirAfter("return")
    /\ exit_code' = 0
    /\ pc' = "exit"
    /\ UNCHANGED <<args, environ, standard_targets, tests_to_run, loop_vars,
                   uvm_vars, hist_vars, spike_vars>>

\* run_full_regression: build_simulator, then the output directory.
BuildSimulator ==
    /\ pc = "build_simulator"
    /\ \E built \in BOOLEAN :
        IF built
        THEN /\ pc' = "next_test"
             /\ idx' = 1
             /\ results' = <<>>
             /\ UNCHANGED <<temp_dir, exit_code>>
        ELSE /\ pc' = "exit"
             /\ exit_code' = 1
             /\ temp_dir' = TempDirAfter("sys.exit")
             /\ UNCHANGED <<idx, results>>
    /\ UNCHANGED <<args, environ, standard_targets, tests_to_run, status,
                   reason, log, spike_log_path, report_written, failed_targets,
                   uvm_vars, hist_vars, spike_vars>>

\* Top of the loop body: `if src_elf and os.path.exists(src_elf)`.  Nothing of
\* the previous pass's call of run_uvm is left: its locals went with its frame.
TestBegin ==
    /\ pc = "next_test"
    /\ idx <= Len(tests_to_run)
    /\ \E src_exists \in BOOLEAN :
        IF tests_to_run[idx].elf # NoElf /\ src_exists
        THEN /\ pc' = "setup"
             /\ UNCHANGED <<status, reason, log, missing>>
        ELSE /\ status' = "FAIL"
             /\ reason' = <<"ELF source not found (Build failed?)">>
             /\ log' = <<>>
             /\ missing' = missing \cup {idx}
             /\ pc' = "write_log"
    /\ spike_log_path' = FALSE
    /\ trace_found' = FALSE
    /\ exists_elf' = TRUE
    /\ cmd_spike_log' = FALSE
    /\ attempt' = 0
    /\ returncode' = 0
    /\ output' = <<>>
    /\ ret' = NoRet
    /\ calls' = <<>>
    /\ UNCHANGED <<main_vars, idx, results, report_written, failed_targets,
                   unresolved, raised, disc_hist, spike_calls, spike_vars>>

\* The handler `except Exception as e` of the loop body.
SetupFailed(stage, e) ==
    /\ status' = "FAIL"
    /\ reason' = <<"Copy/Setup failed: ">> \o e
    /\ log' = e
    /\ raised' = raised \cup {[idx |-> idx, stage |-> stage, text |-> e]}
    /\ pc' = "write_log"

\* Remove a stale copy, copy the artifact, chmod it, read its entry point
\* (get_entry_point catches its own exceptions).
Setup ==
    /\ pc = "setup"
    /\ \/ /\ pc' = "spike"
          /\ UNCHANGED <<status, reason, log, raised>>
       \/ \E e \in ExcTexts : SetupFailed("setup", e)
    /\ UNCHANGED <<main_vars, idx, results, spike_log_path, report_written,
                   failed_targets, uvm_vars, missing, unresolved, disc_hist,
                   spike_calls, trace_found, spike_vars>>

\* The trace is handed on whatever generate_spike_log returned.
TracePath_WheneverLogExists(ok, log_exists) == log_exists

\* `if os.path.exists(temp_spike_log): ... if spike_ok: spike_log_path = ...`
TracePath(ok, log_exists) == log_exists /\ ok

\* status, reason, log = run_uvm(...)
UvmReturn ==
    /\ pc = "uvm_ret"
    /\ status' = ret.status
    /\ reason' = ret.reason
    /\ log' = ret.log
    /\ raised' = IF ret.status = "EXEC_FAIL"
                 THEN raised \cup {[idx |-> idx, stage |-> "simulation",
                                    text |-> ret.reason]}
                 ELSE raised
    /\ pc' = "write_log"
    /\ UNCHANGED <<main_vars, idx, results, spike_log_path, report_written,
                   failed_targets, uvm_vars, missing, unresolved, disc_hist,
                   spike_calls, trace_found, spike_vars>>

\* Write the per-target log file (outside the try block: an exception here
\* leaves main), then append the row.
Record ==
    /\ pc = "write_log"
    /\ \/ /\ results' = Append(results,
                [Target |-> tests_to_run[idx].target,
                 Status |-> status,
                 Reason |-> reason,
                 LogPath |-> <<"logs", "/">> \o LogFileName(tests_to_run[idx].target)])
          /\ idx' = idx + 1
          /\ pc' = "next_test"
          /\ UNCHANGED <<temp_dir, exit_code, raised>>
       \/ \E e \in ExcTexts :
            /\ raised' = raised \cup {[idx |-> idx, stage |-> "log", text |-> e]}
            /\ pc' = "exit"
            /\ exit_code' = 1
            /\ temp_dir' = TempDirAfter("exception")
            /\ UNCHANGED <<results, idx>>
    /\ UNCHANGED <<args, environ, standard_targets, tests_to_run, status,
                   reason, log, spike_log_path, report_written, failed_targets,
                   uvm_vars, missing, unresolved, disc_hist, spike_calls,
                   trace_found, spike_vars>>

\* `if status == "FAIL": sys.exit(1)` on the local of the last pass of the
\* loop; with no pass `status` is unbound and the read raises.
FinalExitCode(st) == IF st = "UNBOUND" \/ st = "FAIL" THEN 1 ELSE 0

\* How that statement leaves the `with` block of main.
FinalLeave(st) ==
    IF st = "UNBOUND" THEN "exception"
    ELSE IF st = "FAIL" THEN "sys.exit" ELSE "return"

\* After the loop: the CSV, the archive, the exit status.
Finish ==
    /\ pc = "next_test"
    /\ idx > Len(tests_to_run)
    /\ report_written' = TRUE
    /\ exit_code' = FinalExitCode(status)
    /\ temp_dir' = TempDirAfter(FinalLeave(status))
    /\ pc' = "exit"
    /\ UNCHANGED <<args, environ, standard_targets, tests_to_run, idx, results,
                   status, reason, log, spike_log_path, failed_targets,
                   uvm_vars, hist_vars, spike_vars>>

----------------------------------------------------------------------------
(* Inputs: device-simulator outputs. *)

\* Outputs of single attempts for the retry loop; three carry the license
\* failure marker.
AttemptOutputs ==
    { <<"x">>,
      <<"1-800-VERILOG">>,
      <<"UVM_ERROR", " ", "x", "\n", "1-800-VERILOG">>,
      <<"1-800-VERILOG", "\n", "y", ",", "x">>,
      <<"UVM_ERROR", " ", ":", " ", "0">> }

\* Lines an output for the classifier is made of.
OutLines ==
    { <<>>,
      <<"x">>,
      <<"0">>,
      <<"UVM_ERROR", " ", "x">>,
      <<"UVM_ERROR", " ", ":", " ", "0">>,
      <<"UVM_FATAL", ":", " ", "0", " ">>,
      <<" ", "UVM_FATAL", " ", "x", ",", "y", " ">>,
      <<"UVM_ERROR", " ", "y", ":">>,
      <<"UVM_ERROR", " ", ":", " ", "1", "0">>,
      <<"x", " ", "UVM_ERROR", " ", "y">>,
      <<"AXI_DECERR">>,
      <<"1-800-VERILOG", " ">> }

RECURSIVE JoinLines(_)
\* '\n'.join(lines)
JoinLines(ls) ==
    IF Len(ls) = 0 THEN <<>>
    ELSE IF Len(ls) = 1 THEN ls[1]
    ELSE ls[1] \o <<"\n">> \o JoinLines(Tail(ls))

ClassifierOutputs ==
    {JoinLines(ls) : ls \in UNION {[1..n -> OutLines] : n \in 0..MaxLines}}

(* generate_spike_log: the reference simulator is started in a session and  *)
(* process group of its own (start_new_session=True).  group holds the     *)
(* processes of the reference simulator: while generate_spike_log runs,     *)
(* group[1] is the process Popen started; the others are what it forked     *)
(* and what earlier calls left running.  A process goes on after the call   *)
(* returned: it may fork, end on its own or be ended by a pending SIGTERM.  *)
(* The two timeouts are events: a wait times out while the process it waits *)
(* for is still running.                                                    *)

\* A process of the reference simulator forks only while at most this many
\* of them exist.
MaxChildren == 1

\* Exit codes of the reference simulator.
SpikeCodes == {0, 1}

\* Popen.returncode of a process a signal ended: -SIGTERM.
TermCode == -15

\* A process just started.  in_group: it is in the process group of the
\* call in hand (a child is in the group of its parent); forever: it never
\* terminates on its own; ignores_term: SIGTERM does not end it; signalled:
\* a SIGTERM it does not ignore was sent to it.
NewProc(in_group, forever, ignores_term) ==
    [in_group |-> in_group, running |-> TRUE, forever |-> forever,
     ignores_term |-> ignores_term, signalled |-> FALSE, returncode |-> 0]

\* os.killpg(os.getpgid(process.pid), SIGTERM): the signal is sent to every
\* running process of the group of the process Popen started; a process that
\* ignores SIGTERM discards it, on any other it takes effect in time.
killpg(g) ==
    [i \in 1..Len(g) |->
        IF g[i].running /\ g[i].in_group /\ ~g[i].ignores_term
        THEN [g[i] EXCEPT !.signalled = TRUE]
        ELSE g[i]]

\* The processes still there when a call has returned: one that ended counts
\* no more (its exit code is of no use now), and the group of the others is
\* the group of no later call.
IsRunning(p) == p.running
Disowned(p) == [p EXCEPT !.in_group = FALSE]
Survivors(g) ==
    LET alive == SelectSeq(g, IsRunning)
    IN  [i \in 1..Len(alive) |-> Disowned(alive[i])]

\* The reference simulators: how the process Popen starts behaves.
Simulators == [forever : BOOLEAN, ignores_term : BOOLEAN]

\* The reference simulators of the whole run: one that ends and one that
\* never ends and ignores SIGTERM; the children they fork ignore SIGTERM.
RunSimulators ==
    { [forever |-> FALSE, ignores_term |-> FALSE],
      [forever |-> TRUE, ignores_term |-> TRUE] }
RunIgnoring == {TRUE}

\* generate_spike_log waits for group[1]: its exit code is kept for wait().
Awaited(i) == i = 1 /\ pc \in {"spike_wait", "spike_term_wait"}

\* Process i of g ended with rc: the awaited one stays, with its exit code;
\* any other is gone.
Ended(g, i, rc) ==
    IF Awaited(i)
    THEN [g EXCEPT ![i].running = FALSE, ![i].returncode = rc]
    ELSE SubSeq(g, 1, i - 1) \o SubSeq(g, i + 1, Len(g))

\* The points where no time passes: the return of generate_spike_log to its
\* caller and the end of the run.
ProcsAct == pc \notin {"spike_ret", "exit"}

\* open(log_path, 'w') and Popen: either may raise, and the outer handler
\* returns False.
SpikeOpen(Sims) ==
    /\ pc = "spike_open"
    /\ \/ \E sim \in Sims :
            /\ group' = <<NewProc(TRUE, sim.forever, sim.ignores_term)>>
                           \o Survivors(group)
            /\ pc' = "spike_wait"
            /\ UNCHANGED spike_ret
       \/ /\ spike_ret' = "False"
          /\ pc' = "spike_ret"
          /\ UNCHANGED group
    /\ UNCHANGED <<term_sent, main_vars, loop_vars, uvm_vars, hist_vars>>

\* A running process forks; the child stays in its parent's group.
ProcForks(Ignoring) ==
    /\ ProcsAct
    /\ Len(group) < 1 + MaxChildren
    /\ \E i \in 1..Len(group), ignores_term \in Ignoring :
         /\ group[i].running
         /\ group' = Append(group,
                        NewProc(group[i].in_group, FALSE, ignores_term))
    /\ UNCHANGED <<pc, term_sent, spike_ret, main_vars, loop_vars, uvm_vars,
                   hist_vars>>

\* A process ends on its own.
ProcExits ==
    /\ ProcsAct
    /\ \E i \in 1..Len(group), rc \in SpikeCodes :
         /\ group[i].running
         /\ ~group[i].forever
         /\ ~Awaited(i) => rc = 0
         /\ group' = Ended(group, i, rc)
    /\ UNCHANGED <<pc, term_sent, spike_ret, main_vars, loop_vars, uvm_vars,
                   hist_vars>>

\* A SIGTERM ends a process that does not ignore it.
ProcTerminated ==
    /\ ProcsAct
    /\ \E i \in 1..Len(group) :
         /\ group[i].running
         /\ group[i].signalled
         /\ group' = Ended(group, i, TermCode)
    /\ UNCHANGED <<pc, term_sent, spike_ret, main_vars, loop_vars, uvm_vars,
                   hist_vars>>

\* process.wait(timeout=timeout) returns: `process.returncode != 0` decides.
SpikeWaitReturns ==
    /\ pc = "spike_wait"
    /\ ~group[1].running
    /\ spike_ret' = IF group[1].returncode # 0 THEN "False" ELSE "True"
    /\ pc' = "spike_ret"
    /\ UNCHANGED <<group, term_sent, main_vars, loop_vars, uvm_vars, hist_vars>>

\* process.wait(timeout=timeout) raises TimeoutExpired: SIGTERM to the group.
SpikeTimeout ==
    /\ pc = "spike_wait"
    /\ group[1].running
    /\ group' = killpg(group)
    /\ term_sent' = TRUE
    /\ pc' = "spike_term_wait"
    /\ UNCHANGED <<spike_ret, main_vars, loop_vars, uvm_vars, hist_vars>>

\* process.wait(timeout=5) returns, then `return False`.
SpikeTermWaitReturns ==
    /\ pc = "spike_term_wait"
    /\ ~group[1].running
    /\ spike_ret' = "False"
    /\ pc' = "spike_ret"
    /\ UNCHANGED <<group, term_sent, main_vars, loop_vars, uvm_vars, hist_vars>>

\* process.wait(timeout=5) raises TimeoutExpired inside the handler: the
\* outer `except Exception` catches it and returns False.
SpikeTermWaitTimeout ==
    /\ pc = "spike_term_wait"
    /\ group[1].running
    /\ spike_ret' = "False"
    /\ pc' = "spike_ret"
    /\ UNCHANGED <<group, term_sent, main_vars, loop_vars, uvm_vars, hist_vars>>

\* run_full_regression: `if target in SPIKE_DENYLIST` skips the trace; else a
\* stale trace is removed (which may raise) and generate_spike_log is called.
SpikeCall ==
    /\ pc = "spike"
    /\ IF tests_to_run[idx].target \in SPIKE_DENYLIST
       THEN /\ spike_log_path' = FALSE
            /\ pc' = "uvm_entry"
            /\ UNCHANGED <<status, reason, log, raised, spike_vars>>
       ELSE \/ /\ term_sent' = FALSE
               /\ spike_ret' = "none"
               /\ pc' = "spike_open"
               /\ UNCHANGED <<status, reason, log, raised, spike_log_path,
                              group>>
            \/ \E e \in ExcTexts :
                 /\ SetupFailed("stale_trace", e)
                 /\ UNCHANGED <<spike_log_path, spike_vars>>
    /\ UNCHANGED <<main_vars, idx, results, report_written, failed_targets,
                   uvm_vars, missing, unresolved, disc_hist, spike_calls,
                   trace_found>>

\* run_full_regression: spike_ok = generate_spike_log(...); then
\* `if os.path.exists(temp_spike_log)`, whatever was returned: the trace file
\* is copied to the logs directory (which may raise) and handed on if
\* spike_ok.  With no trace file nothing is copied and nothing handed on.
SpikeReturn ==
    /\ pc = "spike_ret"
    /\ ~args.check_spike_timeouts
    /\ spike_calls' = spike_calls \cup
                         {[idx |-> idx, ok |-> (spike_ret = "True")]}
    /\ group' = Survivors(group)
    /\ \/ \E log_exists \in BOOLEAN :
            /\ trace_found' = log_exists
            /\ spike_log_path' = TracePath(spike_ret = "True", log_exists)
            /\ pc' = "uvm_entry"
            /\ UNCHANGED <<status, reason, log, raised>>
       \/ \E e \in ExcTexts :
            /\ trace_found' = TRUE
            /\ SetupFailed("trace", e)
            /\ UNCHANGED spike_log_path
    /\ UNCHANGED <<main_vars, idx, results, report_written, failed_targets,
                   uvm_vars, missing, unresolved, disc_hist, term_sent,
                   spike_ret>>

\* run_spike_timeout_check: `if not generate_spike_log(...)` puts the target
\* on the list.
CheckSpikeReturn ==
    /\ pc = "spike_ret"
    /\ args.check_spike_timeouts
    /\ spike_calls' = spike_calls \cup
                         {[idx |-> idx, ok |-> (spike_ret = "True")]}
    /\ failed_targets' =
           IF CheckFailed(spike_ret = "True")
           THEN Append(failed_targets, tests_to_run[idx].target)
           ELSE failed_targets
    /\ group' = Survivors(group)
    /\ idx' = idx + 1
    /\ pc' = "check_next"
    /\ UNCHANGED <<main_vars, results, status, reason, log, spike_log_path,
                   report_written, uvm_vars, missing, unresolved, raised,
                   disc_hist, trace_found, term_sent, spike_ret>>

\* No call of generate_spike_log is modelled step by step.
NoSpikeCall ==
    /\ group = <<>>
    /\ term_sent = FALSE
    /\ spike_ret = "none"

----------------------------------------------------------------------------
(* The specifications. *)

\* The orchestrator's variables where one function only is exercised.
IdleMain ==
    /\ args = [limit |-> NoLimit, target |-> NoTarget, list_targets |-> FALSE,
               check_spike_timeouts |-> FALSE, skip_riscv_tests |-> FALSE,
               mpact_riscv_root |-> NoRoot, mpact_commit |-> NoCommit,
               mpact_riscv_commit |-> NoCommit]
    /\ environ = NoEnviron
    /\ standard_targets = <<>>
    /\ tests_to_run = <<>>
    /\ temp_dir = FALSE
    /\ exit_code = -1
    /\ idx = 0
    /\ results = <<>>
    /\ status = "UNBOUND"
    /\ reason = <<>>
    /\ log = <<>>
    /\ spike_log_path = FALSE
    /\ report_written = FALSE
    /\ failed_targets = <<>>
    /\ missing = {}
    /\ unresolved = {}
    /\ raised = {}
    /\ checkouts = {}
    /\ build_graph = <<>>
    /\ suite_files = <<>>
    /\ riscv_tests = <<>>
    /\ spike_calls = {}
    /\ trace_found = FALSE

NoUvmCall ==
    /\ exists_elf = TRUE
    /\ cmd_spike_log = FALSE
    /\ attempt = 0
    /\ returncode = 0
    /\ output = <<>>
    /\ ret = NoRet
    /\ calls = <<>>

----------------------------------------------------------------------------
(* SpecUvm: one call of run_uvm, the artifact present or not. *)

InitUvm ==
    /\ pc = "uvm_entry"
    /\ IdleMain
    /\ NoUvmCall
    /\ NoSpikeCall

NextUvm ==
    \/ UvmEntry(BOOLEAN)
    \/ UvmAttempt(ExitCodes, AttemptOutputs)
    \/ UvmClassify

SpecUvm == InitUvm /\ [][NextUvm]_vars

(* SpecClassify: the classifier part of run_uvm on every (exit code, output). *)

InitClassify ==
    /\ pc = "uvm_classify"
    /\ IdleMain
    /\ NoSpikeCall
    /\ exists_elf = TRUE
    /\ cmd_spike_log = FALSE
    /\ attempt = 1
    /\ returncode \in ExitCodes
    /\ output \in ClassifierOutputs
    /\ ret = NoRet
    /\ calls = <<[rc |-> returncode, out |-> output]>>

NextClassify == UvmClassify

SpecClassify == InitClassify /\ [][NextClassify]_vars

(* SpecSpike: one call of generate_spike_log. *)

InitSpike ==
    /\ pc = "spike_open"
    /\ IdleMain
    /\ NoUvmCall
    /\ NoSpikeCall

NextSpike ==
    \/ SpikeOpen(Simulators)
    \/ ProcForks(BOOLEAN)
    \/ ProcExits
    \/ ProcTerminated
    \/ SpikeWaitReturns
    \/ SpikeTimeout
    \/ SpikeTermWaitReturns
    \/ SpikeTermWaitTimeout

SpecSpike == InitSpike /\ [][NextSpike]_vars

(* SpecCase: the loop of run_full_regression over two test cases, the call  *)
(* of generate_spike_log followed step by step.  The processes of a group   *)
(* go on after generate_spike_log returned.                                 *)

\* The test cases of the loop: the second one is run without a trace.
CaseTests ==
    << [target |-> T_ALIGN, elf |-> <<"bin", "/", "align_test", ".elf">>],
       [target |-> T_REGS, elf |-> <<"bin", "/", "registers", ".elf">>] >>

\* Outputs of the device simulator in this loop.
CaseOutputs == {<<"x">>}

InitCase ==
    /\ pc = "next_test"
    /\ args = [limit |-> NoLimit, target |-> NoTarget, list_targets |-> FALSE,
               check_spike_timeouts |-> FALSE, skip_riscv_tests |-> TRUE,
               mpact_riscv_root |-> NoRoot, mpact_commit |-> NoCommit,
               mpact_riscv_commit |-> NoCommit]
    /\ environ = NoEnviron
    /\ tests_to_run = CaseTests
    /\ standard_targets = [i \in 1..Len(tests_to_run) |-> tests_to_run[i].target]
    /\ temp_dir = TRUE
    /\ exit_code = -1
    /\ idx = 1
    /\ results = <<>>
    /\ status = "UNBOUND"
    /\ reason = <<>>
    /\ log = <<>>
    /\ spike_log_path = FALSE
    /\ report_written = FALSE
    /\ failed_targets = <<>>
    /\ missing = {}
    /\ unresolved = {}
    /\ raised = {}
    /\ checkouts = {}
    /\ build_graph = <<>>
    /\ suite_files = <<>>
    /\ riscv_tests = <<>>
    /\ spike_calls = {}
    /\ trace_found = FALSE
    /\ NoUvmCall
    /\ NoSpikeCall

NextCase ==
    \/ TestBegin
    \/ Setup
    \/ SpikeCall
    \/ SpikeOpen(Simulators)
    \/ ProcForks(BOOLEAN)
    \/ ProcExits
    \/ ProcTerminated
    \/ SpikeWaitReturns
    \/ SpikeTimeout
    \/ SpikeTermWaitReturns
    \/ SpikeTermWaitTimeout
    \/ SpikeReturn
    \/ UvmEntry(BOOLEAN)
    \/ UvmAttempt(RegressionCodes, CaseOutputs)
    \/ UvmClassify
    \/ UvmReturn
    \/ Record
    \/ Finish

SpecCase == InitCase /\ [][NextCase]_vars

(* Spec: the whole run, from the parsed command line to the exit. *)

Init ==
    /\ pc = "checkout_mpact"
    /\ \E input \in RunInputs : args = input[1] /\ environ = input[2]
    /\ standard_targets = <<>>
    /\ tests_to_run = <<>>
    /\ temp_dir = FALSE
    /\ exit_code = -1
    /\ idx = 0
    /\ results = <<>>
    /\ status = "UNBOUND"
    /\ reason = <<>>
    /\ log = <<>>
    /\ spike_log_path = FALSE
    /\ report_written = FALSE
    /\ failed_targets = <<>>
    /\ missing = {}
    /\ unresolved = {}
    /\ raised = {}
    /\ checkouts = {}
    /\ build_graph = <<>>
    /\ suite_files = <<>>
    /\ riscv_tests = <<>>
    /\ spike_calls = {}
    /\ trace_found = FALSE
    /\ NoUvmCall
    /\ NoSpikeCall

Next ==
    \/ CheckoutMpact
    \/ CheckoutMpactRiscv
    \/ GetTargets
    \/ PrepareTests
    \/ BuildSpike
    \/ CheckBegin
    \/ CheckSetup
    \/ CheckSpike
    \/ CheckSpikeReturn
    \/ CheckFinish
    \/ BuildSimulator
    \/ TestBegin
    \/ Setup
    \/ SpikeCall
    \/ SpikeOpen(RunSimulators)
    \/ ProcForks(RunIgnoring)
    \/ ProcExits
    \/ ProcTerminated
    \/ SpikeWaitReturns
    \/ SpikeTimeout
    \/ SpikeTermWaitReturns
    \/ SpikeTermWaitTimeout
    \/ SpikeReturn
    \/ UvmEntry(BOOLEAN)
    \/ UvmAttempt(RegressionCodes, RegressionOutputs)
    \/ UvmClassify
    \/ UvmReturn
    \/ Record
    \/ Finish

Spec == Init /\ [][Next]_vars

----------------------------------------------------------------------------
(* Vocabulary of the claims about run_uvm, stated on lines, apart from the *)
(* regular expression.                                                     *)

\* text ends with suffix.
EndsWith(text, suffix) ==
    /\ Len(text) >= Len(suffix)
    /\ SubSeq(text, Len(text) - Len(suffix) + 1, Len(text)) = suffix

LicenseFailure(c) == c.rc # 0 /\ Contains(c.out, "1-800-VERILOG")

\* run_uvm has returned from a call in which subprocess.run never raised.
UvmReturned == pc = "uvm_ret" /\ ret.status # "EXEC_FAIL"

\* Start positions of the lines of a text (split at line feeds).
LineStarts(text) == {s \in 1..(Len(text) + 1) : AtLineStart(text, s)}

LineAt(text, s) == SubSeq(text, s, EolFrom(text, s) - 1)

\* An error/fatal marker line: its first non-blank piece is a marker.
IsMarkerLine(line) ==
    \E q \in 1..Len(line) :
        /\ IsUvmMarker(line[q])
        /\ \A k \in 1..(q - 1) : line[k] = " "

\* A summary line reporting a count of exactly 0: it ends, trailing blanks
\* apart, with a colon, blanks and 0.
IsZeroCountLine(line) ==
    \E c \in 1..Len(line), z \in 1..Len(line) :
        /\ line[c] = ":"
        /\ z > c + 1
        /\ line[z] = "0"
        /\ \A k \in (c + 1)..(z - 1) : line[k] = " "
        /\ \A k \in (z + 1)..Len(line) : line[k] = " "

\* Start positions of the marker lines whose count is not exactly 0.
ErrorLineStarts(text) ==
    {s \in LineStarts(text) :
        IsMarkerLine(LineAt(text, s)) /\ ~IsZeroCountLine(LineAt(text, s))}

FirstErrorLine(text) ==
    LET S == ErrorLineStarts(text)
    IN  LineAt(text, CHOOSE s \in S : \A t \in S : s <= t)

\* C6: when every invocation of the device simulator exits non-zero with the
\* license-failure marker in its output, the simulator is invoked exactly 3
\* times and the returned (status, reason, log) is the ordinary classification
\* of the 3rd attempt's exit code and output, with status FAIL.
C6_RetryBound ==
    /\ Len(calls) <= 3
    /\ (UvmReturned /\ calls # <<>>
          /\ \A k \in 1..Len(calls) : LicenseFailure(calls[k]))
       => /\ Len(calls) = 3
          /\ ret = Classify(calls[3].rc, calls[3].out)
          /\ ret.log = calls[3].out
          /\ ret.status = "FAIL"

C6_Witness ==
    /\ UvmReturned
    /\ Len(calls) = 3
    /\ \A k \in 1..3 : LicenseFailure(calls[k])
    /\ calls[3].out # calls[1].out
    /\ calls[3].out # calls[2].out

\* C7: an attempt is followed by another attempt only if it exited non-zero
\* and its output held the license-failure marker; the output of the attempt
\* that ends the loop is the one classified.
C7_RetryOnlyOnLicenseFailure ==
    /\ \A k \in 1..(Len(calls) - 1) : LicenseFailure(calls[k])
    /\ (pc = "uvm_attempt" /\ calls # <<>>) => LicenseFailure(calls[Len(calls)])
    /\ (UvmReturned /\ calls # <<>>)
       => /\ ret = Classify(calls[Len(calls)].rc, calls[Len(calls)].out)
          /\ ret.log = calls[Len(calls)].out

C7_Witness ==
    /\ UvmReturned
    /\ Len(calls) = 2
    /\ LicenseFailure(calls[1])
    /\ calls[2].rc = 0
    /\ Contains(calls[2].out, "1-800-VERILOG")
    /\ calls[2].out # calls[1].out

\* C8: run_uvm on an artifact path that does not exist returns
\* BUILD_ARTIFACT_MISSING with an empty log, having invoked no subprocess.
C8_MissingArtifactShortCircuit ==
    (pc # "uvm_entry" /\ ~exists_elf)
    => /\ pc = "uvm_ret"
       /\ ret.status = "BUILD_ARTIFACT_MISSING"
       /\ ret.log = <<>>
       /\ calls = <<>>
       /\ attempt = 0

C8_Witness ==
    pc = "uvm_ret" /\ ~exists_elf /\ ret.status = "BUILD_ARTIFACT_MISSING"

\* C9 (as claimed): when the final attempt's exit code is non-zero and the
\* output holds a marker line whose trailing count is not exactly 0, the
\* result is FAIL with the first such line, trimmed and sanitized, as reason.
C9_FirstErrorLineIsReason ==
    (pc = "uvm_ret" /\ returncode # 0 /\ ErrorLineStarts(output) # {})
    => /\ ret.status = "FAIL"
       /\ ret.reason = SanitizeReason(Strip(FirstErrorLine(output)))

\* C10: when the final attempt's exit code is 0 and every marker line of the
\* output is a summary line reporting a count of exactly 0, the result is
\* PASS with reason "None", whatever lines precede or follow.
C10_ZeroCountSummaryPasses ==
    (pc = "uvm_ret" /\ returncode = 0 /\ ErrorLineStarts(output) = {})
    => /\ ret.status = "PASS"
       /\ ret.reason = <<"None">>

C10_Witness ==
    /\ pc = "uvm_ret"
    /\ returncode = 0
    /\ ret.status = "PASS"
    /\ Cardinality(LineStarts(output)) = 3
    /\ IsZeroCountLine(LineAt(output, EolFrom(output, 1) + 1))
    /\ IsMarkerLine(LineAt(output, EolFrom(output, 1) + 1))
    /\ LineAt(output, 1) = <<"x", " ", "UVM_ERROR", " ", "y">>

\* C11 (as claimed): when the final attempt's exit code is 0 but the output
\* holds a marker line whose trailing count is not exactly 0, the result is
\* FAIL with the first such line as reason; PASS is returned only when the
\* exit code is 0 and the output holds no such line.
C11_ZeroExitWithErrorLineFails ==
    /\ (pc = "uvm_ret" /\ returncode = 0 /\ ErrorLineStarts(output) # {})
       => /\ ret.status = "FAIL"
          /\ ret.reason = SanitizeReason(Strip(FirstErrorLine(output)))
    /\ (pc = "uvm_ret" /\ ret.status = "PASS")
       => returncode = 0 /\ ErrorLineStarts(output) = {}

\* No line of the text is a marker line, and no bus-decode marker is in it.
NoMarkerAtAll(text) ==
    /\ \A s \in LineStarts(text) : ~IsMarkerLine(LineAt(text, s))
    /\ ~Contains(text, "AXI_DECERR")

IsBlank(text) == \A i \in 1..Len(text) : IsSpace(text[i])

\* The last line of a text that holds a piece other than white space.
LastNonEmptyLine(text) ==
    LET S == {s \in LineStarts(text) : ~IsBlank(LineAt(text, s))}
    IN  LineAt(text, CHOOSE s \in S : \A t \in S : s >= t)

\* C12 (as claimed): when the exit code is non-zero and the output holds
\* neither a marker line nor the bus-decode marker, the result is FAIL; its
\* reason ends with the last non-empty line of the output, and is "Unknown"
\* when the output is empty or white space only.
C12_LastLineOrUnknown ==
    (pc = "uvm_ret" /\ returncode # 0 /\ NoMarkerAtAll(output))
    => /\ ret.status = "FAIL"
       /\ IF IsBlank(output)
          THEN ret.reason \in {<<"Unknown">>, <<"Make failed: ", "Unknown">>}
          ELSE EndsWith(ret.reason,
                        SanitizeReason(Strip(LastNonEmptyLine(output))))

----------------------------------------------------------------------------
(* Claims about the whole run. *)

\* run_full_regression went through its loop and wrote the report.
RunPhaseCompleted == pc = "exit" /\ report_written

RowsOf(target) == {j \in 1..Len(results) : results[j].Target = target}

\* C1 (as claimed): after the run phase has processed its test cases, the
\* exit status is non-zero if any report row has status FAIL, whatever the
\* row's position.
C1_AnyFailRowExitsNonZero ==
    (RunPhaseCompleted /\ \E j \in 1..Len(results) : results[j].Status = "FAIL")
    => exit_code # 0

\* C2 (as claimed): with every prerequisite obtained and every processed test
\* case classified as non-FAIL, the exit code is 0, for the empty sequence
\* of test cases too.
C2_AllNonFailExitsZero ==
    (RunPhaseCompleted /\ \A j \in 1..Len(results) : results[j].Status # "FAIL")
    => exit_code = 0

\* C3 (as claimed): a target whose artifact is missing (no artifact resolved,
\* or the path absent when the run phase reaches it) has a row with status
\* BUILD_ARTIFACT_MISSING in the final report.
C3_MissingArtifactRow ==
    /\ \A i \in missing :
          i <= Len(results) => results[i].Status = "BUILD_ARTIFACT_MISSING"
    /\ RunPhaseCompleted
       => \A t \in unresolved :
             \E j \in RowsOf(t) : results[j].Status = "BUILD_ARTIFACT_MISSING"

\* C4 (as claimed): when the run phase completes, the report holds exactly
\* one row for each target identifier of the sequence handed to it, and no
\* row for any other target.
C4_ExactlyOneRowPerTarget ==
    RunPhaseCompleted
    => /\ \A i \in 1..Len(tests_to_run) :
             Cardinality(RowsOf(tests_to_run[i].target)) = 1
       /\ \A j \in 1..Len(results) :
             \E i \in 1..Len(tests_to_run) :
                 results[j].Target = tests_to_run[i].target

\* C5 (as claimed): an exception raised at any stage of one test case (setup,
\* golden trace, simulation, writing the log file) is caught, a FAIL row with
\* the exception text is recorded for that test case, and every later test
\* case is still processed.
C5_ExceptionBecomesFailRow ==
    /\ \A r \in raised :
          (pc = "exit" \/ r.idx < idx)
          => /\ r.idx <= Len(results)
             /\ results[r.idx].Status = "FAIL"
             /\ EndsWith(results[r.idx].Reason, r.text)
    /\ (pc = "exit" /\ raised # {}) => Len(results) = Len(tests_to_run)

\* C13 (as claimed): the reason of every report row holds no comma and no
\* line break, on every path that produces a row (classified FAIL,
\* EXEC_FAIL, FAIL from a caught setup exception, missing artifact, PASS).
C13_ReasonHasNoCommaOrLineBreak ==
    \A j \in 1..Len(results) :
        /\ ~Contains(results[j].Reason, ",")
        /\ ~Contains(results[j].Reason, "\n")

----------------------------------------------------------------------------
(* Claims about discovery and selection. *)

\* generate_spike_log is running, or returning.
SpikePcs == {"spike_open", "spike_wait", "spike_term_wait", "spike_ret"}

\* main is past its call of get_targets.
Discovered == pc \notin {"checkout_mpact", "checkout_mpact_riscv", "get_targets"}

\* The run phase was entered with tests_to_run.
HandedToRunPhase ==
    \/ pc \in {"next_test", "setup", "spike", "uvm_entry", "uvm_attempt",
               "uvm_classify", "uvm_ret", "write_log"}
    \/ pc \in SpikePcs /\ ~args.check_spike_timeouts
    \/ RunPhaseCompleted

Listed(t) == \E i \in 1..Len(standard_targets) : standard_targets[i] = t

\* C14: with --target unset, no identifier of the denylist is in the result
\* of get_targets (which is what --list-targets lists), in the list of
\* conformance-suite artifacts, among the test cases, or in a report row,
\* whatever the build graph, the suite directories and --limit.
C14_DenylistedNeverAppears ==
    args.target = NoTarget
    => /\ \A i \in 1..Len(standard_targets) : standard_targets[i] \notin DENYLIST
       /\ \A i \in 1..Len(riscv_tests) : riscv_tests[i].target \notin DENYLIST
       /\ \A i \in 1..Len(tests_to_run) : tests_to_run[i].target \notin DENYLIST
       /\ \A j \in 1..Len(results) : results[j].Target \notin DENYLIST

C14_Witness ==
    /\ RunPhaseCompleted
    /\ args.target = NoTarget
    /\ build_graph # <<>>
    /\ \E r \in build_graph[1] :
          r.name \in DENYLIST /\ r.linker_script = r.name \o <<".ld">>
    /\ suite_files # <<>>
    /\ \E f \in suite_files[1] : (RISCV_PREFIX \o f.name) \in DENYLIST
    /\ Len(results) = 2
    /\ results[1].Target = T_RVADD

\* A rule of the build graph passes the filter: not denylisted, a linker
\* script declared, and that script is <package>:<name>.ld.
Qualifies(r) ==
    /\ r.name \notin DENYLIST
    /\ r.linker_script # NoAttr
    /\ r.linker_script = r.name \o <<".ld">>

\* Position of a target in sorted order.
SortPos(t) == CHOOSE i \in 1..Len(TargetOrder) : TargetOrder[i] = t

\* C15 (as claimed): without --target, get_targets includes a build-graph
\* entry if and only if the entry passes the filter.
C15_IncludedIffQualifies ==
    (args.target = NoTarget /\ build_graph # <<>>)
    => \A r \in build_graph[1] : Listed(r.name) <=> Qualifies(r)

\* C15 (amended): without --target, every entry get_targets returns is a
\* build-graph entry that passes the filter; when no limit applies every
\* entry that passes is returned, and when --limit N applies an entry that
\* passes is left out only behind N returned entries that precede it in
\* sorted order.
C15_IncludedIffQualifiesUpToLimit ==
    (args.target = NoTarget /\ build_graph # <<>>)
    => /\ \A i \in 1..Len(standard_targets) :
             \E r \in build_graph[1] :
                 r.name = standard_targets[i] /\ Qualifies(r)
       /\ \A r \in build_graph[1] :
             (Qualifies(r) /\ ~Listed(r.name))
             => /\ LimitApplies(args.limit)
                /\ Len(standard_targets) = args.limit[1]
                /\ \A i \in 1..Len(standard_targets) :
                       SortPos(standard_targets[i]) < SortPos(r.name)

C15_Witness ==
    /\ args.target = NoTarget
    /\ ~LimitApplies(args.limit)
    /\ build_graph # <<>>
    /\ \E r \in build_graph[1] : r.linker_script = NoAttr
    /\ \E r \in build_graph[1] :
          r.linker_script # NoAttr /\ r.linker_script # r.name \o <<".ld">>
    /\ standard_targets = <<>>
    /\ pc = "prepare_tests"

\* C16 (as claimed): when --limit N is given, N >= 0, the result of
\* get_targets has at most N entries and at most N test cases are handed to
\* the run phase.
C16_LimitBoundsBoth ==
    (args.limit # NoLimit /\ args.limit[1] >= 0)
    => /\ Discovered => Len(standard_targets) <= args.limit[1]
       /\ Len(tests_to_run) <= args.limit[1]

\* C17 (as claimed): with --target ID the build graph is not queried and
\* the run phase gets exactly one test case, the one for ID, whatever the
\* denylist and the linker-script filter say about ID.
C17_TargetOverrideRunsExactlyOne ==
    args.target # NoTarget
    => /\ build_graph = <<>>
       /\ HandedToRunPhase
          => /\ Len(tests_to_run) = 1
             /\ tests_to_run[1].target = args.target
       /\ RunPhaseCompleted
          => /\ Len(results) = 1
             /\ results[1].Target = args.target

----------------------------------------------------------------------------
(* Claims about the golden trace. *)

\* C18 (as claimed): called against a process that never terminates on its
\* own, generate_spike_log returns False after sending the termination
\* signal to the process group, and when it returns no process of the group
\* is still running.
C18_TimeoutLeavesNoProcess ==
    (pc = "spike_ret" /\ group # <<>> /\ group[1].forever)
    => /\ spike_ret = "False"
       /\ term_sent
       /\ \A i \in 1..Len(group) : ~group[i].running

\* The test case at idx, in hand between the trace step and the row.
InSimulation == pc \in {"uvm_attempt", "uvm_classify", "uvm_ret"}

\* generate_spike_log was called for test case i and has returned.
Generated(i) == \E c \in spike_calls : c.idx = i

\* The command of the simulation in hand holds the trace exactly when the
\* target is not in the co-simulation denylist and generate_spike_log
\* returned success for this test case; in the run phase (not under
\* --check-spike-timeouts) generate_spike_log is never called for a target
\* of that denylist.
TraceIffGenerated ==
    /\ InSimulation /\ exists_elf
       => (cmd_spike_log
             <=> /\ tests_to_run[idx].target \notin SPIKE_DENYLIST
                 /\ [idx |-> idx, ok |-> TRUE] \in spike_calls)
    /\ ~args.check_spike_timeouts
       => \A c \in spike_calls :
            tests_to_run[c.idx].target \notin SPIKE_DENYLIST

\* The row about to be written is what a simulation without trace returned.
SimulatedWithoutTrace ==
    /\ ~cmd_spike_log
    /\ (calls # <<>> \/ ret.status = "EXEC_FAIL")
    /\ status = ret.status
    /\ reason = ret.reason
    /\ log = ret.log

\* C19 (as claimed): the device simulator is given the golden-trace path
\* exactly when the target is not in the co-simulation denylist and trace
\* generation returned success for this test case; generation is never
\* invoked for a target of that denylist; and a test case whose generation
\* failed or timed out is still simulated, without a trace.
C19_TraceIffGenerated ==
    /\ TraceIffGenerated
    /\ (pc = "write_log" /\ [idx |-> idx, ok |-> FALSE] \in spike_calls)
       => SimulatedWithoutTrace

\* The device simulator is being run, or has been run, for the test case in
\* hand: run_uvm got past its entry check.
SimulatorStarted == InSimulation /\ exists_elf

\* As TraceIffGenerated, for the simulations that are started, the trace being
\* handed on only if its file is there after the call.
TraceIffGeneratedAndFound ==
    /\ SimulatorStarted
       => (cmd_spike_log
             <=> /\ tests_to_run[idx].target \notin SPIKE_DENYLIST
                 /\ [idx |-> idx, ok |-> TRUE] \in spike_calls
                 /\ trace_found)
    /\ ~args.check_spike_timeouts
       => \A c \in spike_calls :
            tests_to_run[c.idx].target \notin SPIKE_DENYLIST

\* Copying the trace file of test case i to the logs directory raised.
TraceCopyRaised(i) == \E r \in raised : r.idx = i /\ r.stage = "trace"

\* run_uvm was not called for the test case in hand, whose row is the FAIL
\* row of the loop's exception handler.
NotSimulatedSetupFailed ==
    /\ ret = NoRet
    /\ calls = <<>>
    /\ ~cmd_spike_log
    /\ status = "FAIL"
    /\ reason[1] = "Copy/Setup failed: "

\* The row about to be written is what run_uvm returned for the test case in
\* hand: the outcome of the device simulator, or BUILD_ARTIFACT_MISSING with
\* no simulator run when the artifact's copy was not there at entry.
RowOfRunUvm ==
    /\ ret # NoRet
    /\ status = ret.status
    /\ reason = ret.reason
    /\ log = ret.log
    /\ IF exists_elf
       THEN calls # <<>> \/ ret.status = "EXEC_FAIL"
       ELSE calls = <<>> /\ ret.status = "BUILD_ARTIFACT_MISSING"

\* C19 (amended): a device simulator that is started is given the trace
\* exactly when the target is not in the co-simulation denylist, generation
\* returned success for this test case and the trace file is there after the
\* generation; generation is never invoked for a target of that denylist in
\* the run phase; and a test case for which generation was called, whatever
\* it returned, ends in one of two ways.  If copying its trace file to the
\* logs directory raised, run_uvm is not called and the row is the FAIL row
\* "Copy/Setup failed: ...".  Otherwise the row is what run_uvm returned, the
\* simulator having been started unless the artifact's copy was gone at
\* run_uvm's entry, and given the trace exactly when generation returned
\* success, the trace file was there and the simulator was started: after a
\* failed generation, never.
C19_TraceIffGeneratedUnlessRaised ==
    /\ TraceIffGeneratedAndFound
    /\ (pc = "write_log" /\ Generated(idx))
       => IF TraceCopyRaised(idx)
          THEN trace_found /\ NotSimulatedSetupFailed
          ELSE /\ RowOfRunUvm
               /\ cmd_spike_log
                    <=> /\ [idx |-> idx, ok |-> TRUE] \in spike_calls
                        /\ trace_found
                        /\ exists_elf

\* Two test cases, generation called for both: the first one's failed and it
\* was simulated without a trace; the second one's succeeded, the copy of its
\* trace raised and it got the handler's row.
C19_Witness ==
    /\ RunPhaseCompleted
    /\ Len(results) = 2
    /\ spike_calls = {[idx |-> 1, ok |-> FALSE], [idx |-> 2, ok |-> TRUE]}
    /\ \A r \in raised : r.idx = 2 /\ r.stage = "trace"
    /\ raised # {}
    /\ results[1].Status = "PASS"
    /\ results[2].Status = "FAIL"
    /\ results[2].Reason[1] = "Copy/Setup failed: "
    /\ ret = NoRet

\* C20 (as claimed): when --mpact-commit or --mpact-riscv-commit is given,
\* the commit is checked out before discovery starts, or the run aborts with
\* a non-zero status at the checkout; --mpact-riscv-commit is never dropped
\* silently, not even when no MPACT RISCV directory is configured.
C20_CommitCheckedOutOrAbort ==
    LET Settled(which, commit) ==
            commit # NoCommit
            => \/ \E c \in checkouts :
                     c.which = which /\ c.commit = commit /\ c.ok
               \/ /\ pc = "exit"
                  /\ exit_code # 0
                  /\ build_graph = <<>>
                  /\ tests_to_run = <<>>
    IN  pc \notin {"checkout_mpact", "checkout_mpact_riscv"}
        => /\ Settled("mpact", args.mpact_commit)
           /\ Settled("mpact_riscv", args.mpact_riscv_commit)

----------------------------------------------------------------------------
(* Claims about the working directory and the trace-generation check. *)

\* A test case is being processed, by either loop.
ProcessingTests ==
    pc \in {"next_test", "setup", "spike", "uvm_entry", "uvm_attempt",
            "uvm_classify", "uvm_ret", "write_log", "check_next",
            "check_setup", "check_spike"} \cup SpikePcs

\* C21: the working directory exists while test cases are processed (it is
\* created before the first one), and it is gone when the process has ended,
\* however the run ended after the directory was created: completion,
\* the return of --check-spike-timeouts, a failed build of the device
\* simulator, the final exit 1, an uncaught exception.
C21_TempDirScoped ==
    /\ (ProcessingTests \/ pc = "build_simulator") => temp_dir
    /\ pc = "exit" => ~temp_dir

C21_Witness ==
    /\ pc = "exit"
    /\ ~temp_dir
    /\ exit_code = 1
    /\ ~report_written
    /\ Len(results) = 1
    /\ \E r \in raised : r.idx = 2 /\ r.stage = "log"

\* The check ended and logged its suggested denylist.
CheckCompleted == args.check_spike_timeouts /\ pc = "exit" /\ exit_code = 0

\* The test cases the check has dealt with so far.
Checked == IF args.check_spike_timeouts /\ idx > 0 THEN 1..(idx - 1) ELSE {}

GenerationFailed(i) == [idx |-> i, ok |-> FALSE] \in spike_calls

PreparationRaised(i) == \E r \in raised : r.idx = i

\* The targets of the test cases whose generation returned failure or whose
\* preparation raised, in processing order.
FailedInOrder ==
    LET ids == [i \in 1..Len(tests_to_run) |-> i]
        Bad(i) == GenerationFailed(i) \/ PreparationRaised(i)
        sel == SelectSeq(ids, Bad)
    IN  [k \in 1..Len(sel) |-> tests_to_run[sel[k]].target]

\* Under --check-spike-timeouts the device simulator is neither built nor
\* invoked, no report is written, and the list logged at the end is
\* FailedInOrder.
CheckOnlyGenerates ==
    args.check_spike_timeouts
    => /\ pc \notin {"build_simulator", "next_test", "setup", "spike",
                     "uvm_entry", "uvm_attempt", "uvm_classify", "uvm_ret",
                     "write_log"}
       /\ calls = <<>>
       /\ results = <<>>
       /\ ~report_written
       /\ CheckCompleted => failed_targets = FailedInOrder

\* C22 (as claimed): under --check-spike-timeouts the device simulator is
\* never built or invoked and no report is written; generation is attempted
\* for every test case whose artifact exists; the suggested denylist holds
\* exactly the targets whose generation returned failure or whose
\* preparation raised, in processing order.
C22_CheckGeneratesForEveryArtifact ==
    /\ CheckOnlyGenerates
    /\ \A i \in Checked : i \notin missing => Generated(i)

\* C22 (amended): as claimed, but generation is attempted for a test case
\* whose artifact exists only if its preparation (copy, chmod) raised no
\* exception; the skipped test cases are neither generated nor listed.
C22_CheckGeneratesUnlessRaised ==
    /\ CheckOnlyGenerates
    /\ \A i \in Checked :
          /\ i \notin missing => (Generated(i) \/ PreparationRaised(i))
          /\ PreparationRaised(i) => ~Generated(i)
          /\ i \in missing => ~Generated(i) /\ ~PreparationRaised(i)

C22_Witness ==
    /\ CheckCompleted
    /\ Len(tests_to_run) = 2
    /\ spike_calls = {[idx |-> 1, ok |-> FALSE]}
    /\ PreparationRaised(2)
    /\ Len(failed_targets) = 2
    /\ failed_targets[1] # failed_targets[2]

----------------------------------------------------------------------------
(* Claims about the derived file names and the subprocesses. *)

\* C24 (as claimed): in one run, test cases with distinct target
\* identifiers have distinct log file names, artifact copy names and
\* golden-trace names, and rows of distinct targets have distinct log
\* paths, so that each row's log path holds the log of its own test case.
C24_DistinctTargetsDistinctFiles ==
    /\ \A i, j \in 1..Len(tests_to_run) :
          tests_to_run[i].target # tests_to_run[j].target
          => /\ LogFileName(tests_to_run[i].target)
                  # LogFileName(tests_to_run[j].target)
             /\ ElfFileName(tests_to_run[i].target)
                  # ElfFileName(tests_to_run[j].target)
             /\ SpikeLogName(tests_to_run[i].target)
                  # SpikeLogName(tests_to_run[j].target)
    /\ \A j, k \in 1..Len(results) :
          results[j].Target # results[k].Target
          => results[j].LogPath # results[k].LogPath

\* A process started for the golden trace of this run is still running.
GeneratorAlive == \E i \in 1..Len(group) : group[i].running

\* C23 (as claimed): a device-simulator attempt starts only after every
\* process of the golden-trace generator's group for the same test case has
\* terminated, and the next test case starts only after every subprocess of
\* this one has terminated, the generator's timeout included: so at most one
\* simulator subprocess is alive at any point.
C23_OneSimulatorAtATime ==
    pc \in {"uvm_attempt", "next_test"} => ~GeneratorAlive

====
